---------------------------- MODULE Spec2Model ----------------------------
(***************************************************************************)
(* Model of asreview.analysis.Analysis (src/asreview/analysis/analysis.py):*)
(* the aggregation of the runs' inclusion curves, their normalisation and  *)
(* its cache, the wss and rrf metrics, avg_time_to_discovery and limits.   *)
(*                                                                         *)
(* Numbers.  numpy floats are modelled as exact rationals <<n, d>> in      *)
(* lowest terms with d > 0; d = 0 encodes the non-finite results of a      *)
(* division by zero: <<1,0>> = +inf, <<-1,0>> = -inf, <<0,0>> = nan.       *)
(* A standard error is an irrational number in general; a dispersion is    *)
(* therefore carried as [sq |-> q], the non-negative real whose square is  *)
(* the rational q.  An optional value is a tuple of at most one element:   *)
(* None is <<>> and a present value v is <<v>>.                            *)
(***************************************************************************)
EXTENDS Integers, Sequences, FiniteSets, TLC

\* ------------------------------------------------------------- bounds
\* Inclusion curves: largest number of items and of runs.
MaxN == 3
MaxRuns == 2
\* Call sequences: largest number of items and of runs.
MaxCallN == 2
MaxCallRuns == 1
\* Discovery times: largest number of items and of runs, longest label
\* order and longest proba order.
MaxDiscN == 2
MaxDiscRuns == 2
MaxOrder == 2
MaxProba == 1
\* Limits: largest number of recorded queries, longest list of
\* probabilities, largest read count of the statistic, largest train_idx.
MaxQueries == 2
MaxProbs == 2
MaxLimit == 1
MaxTrain == 1

None == <<>>

\* F(e) with e evaluated once, to a value, before F uses it.
Bind(e, F(_)) == CHOOSE v \in {F(x) : x \in {e}} : TRUE

Some(v) == <<v>>

\* ------------------------------------------------------------ numbers
Abs(n) == IF n < 0 THEN -n ELSE n

Sign(n) == IF n > 0 THEN 1 ELSE IF n < 0 THEN -1 ELSE 0

RECURSIVE Gcd(_, _)
Gcd(a, b) == IF b = 0 THEN a ELSE Gcd(b, a % b)

\* The float n/d (d >= 0), in lowest terms.
Rat(n, d) ==
  IF d = 0 THEN <<Sign(n), 0>>
  ELSE LET g == Gcd(Abs(n), d) IN <<n \div g, d \div g>>

Num(n) == <<n, 1>>

NaN == <<0, 0>>

IsFinite(a) == a[2] # 0

IsNaN(a) == a = NaN

\* a / b in IEEE arithmetic, as numpy's true_divide computes it: a division
\* by zero gives inf or nan (and a warning), never an exception.
RDiv(a, b) ==
  IF IsNaN(a) \/ IsNaN(b) THEN NaN
  ELSE IF ~IsFinite(a) THEN (IF ~IsFinite(b) THEN NaN
                             ELSE <<a[1] * (IF b[1] < 0 THEN -1 ELSE 1), 0>>)
  ELSE IF ~IsFinite(b) THEN Num(0)
  ELSE IF b[1] = 0 THEN <<Sign(a[1]), 0>>
  ELSE Rat(a[1] * b[2] * Sign(b[1]), a[2] * Abs(b[1]))

\* a * b in IEEE arithmetic.
RMul(a, b) ==
  IF IsNaN(a) \/ IsNaN(b) THEN NaN
  ELSE IF ~IsFinite(a) \/ ~IsFinite(b) THEN <<Sign(a[1]) * Sign(b[1]), 0>>
  ELSE Rat(a[1] * b[1], a[2] * b[2])

\* a - b in IEEE arithmetic.
RSub(a, b) ==
  IF IsNaN(a) \/ IsNaN(b) THEN NaN
  ELSE IF ~IsFinite(a) THEN (IF ~IsFinite(b) /\ a[1] = b[1] THEN NaN ELSE a)
  ELSE IF ~IsFinite(b) THEN <<-b[1], 0>>
  ELSE Rat(a[1] * b[2] - b[1] * a[2], a[2] * b[2])

\* a >= b on floats: False as soon as one side is nan.
RGe(a, b) ==
  IF IsNaN(a) \/ IsNaN(b) THEN FALSE
  ELSE IF ~IsFinite(a) THEN a[1] = 1 \/ b = a
  ELSE IF ~IsFinite(b) THEN b[1] = -1
  ELSE a[1] * b[2] >= b[1] * a[2]

\* The non-negative real whose square is q.
Root(q) == [sq |-> q]

\* r / y for a dispersion r and a float y >= 0.
RootDiv(r, y) == Root(RDiv(r.sq, RMul(y, y)))

RECURSIVE SumSeq(_)
SumSeq(s) == IF s = <<>> THEN 0 ELSE Head(s) + SumSeq(Tail(s))

RECURSIVE SumSq(_)
SumSq(s) == IF s = <<>> THEN 0 ELSE Head(s) * Head(s) + SumSq(Tail(s))

\* Mutant of Mean: the sum, not divided by the number of values.
MeanNotDivided(vals) == Num(SumSeq(vals))

\* np.mean(cur_vals)
Mean(vals) == Rat(SumSeq(vals), Len(vals))

\* scipy.stats.sem(cur_vals): the sample standard deviation (ddof = 1) over
\* sqrt(n); its square is (n*sum(v^2) - sum(v)^2) / (n^2 * (n-1)).
Sem(vals) ==
  LET n == Len(vals)
  IN Root(Rat(n * SumSq(vals) - SumSeq(vals) * SumSeq(vals), n * n * (n - 1)))

\* ------------------------------------------------------------- state
VARIABLES
  labels,        \* self.labels: the 0/1 label of item k at labels[k+1]
  final_labels,  \* self.final_labels: a second labelling, or None
  loggers,       \* self.loggers: the runs, in the dict's order
  inc_found,     \* self.inc_found: the cache, final_labels flag -> entry
  n_agg,         \* how many times _get_inc_found ran, per flag
  ret,           \* the last call and what it returned or raised
  pc,            \* position of the running avg_time_to_discovery / limits
  i_file,        \* avg_time_to_discovery: index of the next run to process
  time_results,  \* avg_time_to_discovery: item -> recorded times
  prob_allow_miss, \* limits: the list of probabilities asked for
  query_i,       \* limits: next query step
  n_train,       \* limits: last known training-set size
  results        \* limits: [x_range, limits]

vars == <<labels, final_labels, loggers, inc_found, n_agg, ret, pc, i_file,
          time_results, prob_allow_miss, query_i, n_train, results>>


\* ----------------------------------------------------- the run logs
\* Item k of a data set of n items is the index k in 0..n-1.
Items(n) == 0 .. (n - 1)

\* labels[idx] on a 0-based numpy array.
LabelOf(lbls, idx) == lbls[idx + 1]

\* statistics._get_labeled_order(logger): the label order and the number of
\* seed items at its start.
GetLabeledOrder(logger) == <<logger.label_order, logger.n_initial>>

\* statistics._get_last_proba_order(logger): the final ranking.
GetLastProbaOrder(logger) == logger.proba_order

\* Number of relevant items among the first k entries of a label order.
RECURSIVE CountRelevant(_, _, _)
CountRelevant(order, lbls, k) ==
  IF k = 0 THEN 0
  ELSE CountRelevant(order, lbls, k - 1) + LabelOf(lbls, order[k])

\* statistics._find_inclusions(logger, labels): inclusions[i] counts the
\* relevant items among the first i+1 entries of the label order;
\* inc_after_init = inclusions[last] - inclusions[n_initial - 1], the
\* subtracted term being 0 when n_initial = 0.
FindInclusions(logger, lbls) ==
  LET order == logger.label_order
      inclusions == [i \in 1 .. Len(order) |-> CountRelevant(order, lbls, i)]
  IN [inclusions |-> inclusions,
      inc_after_init |-> CountRelevant(order, lbls, Len(order))
                         - CountRelevant(order, lbls, logger.n_initial),
      n_initial |-> logger.n_initial]

\* ------------------------------------------------- _get_inc_found
\* cur_vals of step i_instance (0-based): inclusions_found[i_file][i_instance]
\* of the runs that have that index, in the order of the runs (an IndexError
\* is passed over).
\* Mutant of CurVals: a run without that index contributes a 0.
RECURSIVE CurValsZeroPadded(_, _, _)
CurValsZeroPadded(incs, i_instance, upto) ==
  IF upto = 0 THEN <<>>
  ELSE CurValsZeroPadded(incs, i_instance, upto - 1)
       \o (IF i_instance < Len(incs[upto])
           THEN <<incs[upto][i_instance + 1]>>
           ELSE IF \E f \in 1 .. Len(incs) : i_instance < Len(incs[f])
           THEN <<0>> ELSE <<>>)

RECURSIVE CurVals(_, _, _)
CurVals(incs, i_instance, upto) ==
  IF upto = 0 THEN <<>>
  ELSE CurVals(incs, i_instance, upto - 1)
       \o (IF i_instance < Len(incs[upto])
           THEN <<incs[upto][i_instance + 1]>> ELSE <<>>)

\* err of one step: the value itself for one contributing run, the standard
\* error of the mean for more.
StepErr(cur_vals) ==
  IF Len(cur_vals) = 1 THEN Root(Num(cur_vals[1] * cur_vals[1]))
  ELSE Sem(cur_vals)

\* The loop over itertools.count(): one <<avg, err>> per step, until a step
\* to which no run contributes.
RECURSIVE AggregateFrom(_, _)
AggregateFrom(incs, i_instance) ==
  LET cur_vals == CurVals(incs, i_instance, Len(incs))
  IN IF Len(cur_vals) = 0 THEN <<>>
     ELSE <<[avg |-> Mean(cur_vals), err |-> StepErr(cur_vals)]>>
          \o AggregateFrom(incs, i_instance + 1)

\* inc_found_err of a collection of exactly one run: np.zeros.
SingleRunErr(steps, num_runs) ==
  [i \in 1 .. Len(steps) |->
     IF num_runs = 1 THEN Root(Num(0)) ELSE steps[i].err]

\* Analysis._get_inc_found(labels): the cache entry of one flag.
GetIncFound(lgs, lbls) ==
  Bind([f \in 1 .. Len(lgs) |-> FindInclusions(lgs[f], lbls)],
       LAMBDA found :
         Bind(AggregateFrom([f \in 1 .. Len(lgs) |-> found[f].inclusions], 0),
              LAMBDA steps :
                [avg |-> [i \in 1 .. Len(steps) |-> steps[i].avg],
                 err |-> SingleRunErr(steps, Len(lgs)),
                 inc_after_init |-> found[Len(lgs)].inc_after_init,
                 n_initial |-> found[Len(lgs)].n_initial]))

\* ------------------------------------------------ inclusions_found
ResultFormats == {"fraction", "percentage", "number"}

\* self.inc_found[fl] = {} : the entry before its four keys are written.
EmptyEntry == <<>>

\* labels of a call: self.final_labels if final_labels else self.labels.
LabelsFor(fl) == IF fl THEN final_labels ELSE Some(labels)

\* Mutant of CacheMiss: the cache is never looked up.
CacheAlwaysMiss(cache, fl) == TRUE

\* `fl not in self.inc_found`
CacheMiss(cache, fl) == fl \notin DOMAIN cache

\* Mutant of XNorm: "number" sets x_norm to len(labels) instead of dividing
\* by it.
XNormNumberIsN(result_format, n, entry) ==
  LET x_norm == Num(n - entry.n_initial)
  IN IF result_format = "percentage" THEN RDiv(x_norm, Num(100))
     ELSE IF result_format = "number" THEN Num(n)
     ELSE x_norm

\* x_norm of a result format.
XNorm(result_format, n, entry) ==
  LET x_norm == Num(n - entry.n_initial)
  IN IF result_format = "percentage" THEN RDiv(x_norm, Num(100))
     ELSE IF result_format = "number" THEN RDiv(x_norm, Num(n))
     ELSE x_norm

\* y_norm of a result format.
YNorm(result_format, entry) ==
  LET y_norm == Num(entry.inc_after_init)
  IN IF result_format = "percentage" THEN RDiv(y_norm, Num(100))
     ELSE IF result_format = "number"
          THEN RDiv(y_norm, Num(entry.inc_after_init))
     ELSE y_norm

\* One call of inclusions_found on the cache `cache` with the aggregation
\* counter `nagg`: the cache and counter after the call, and what the call
\* returns.  With labels None the aggregation raises a TypeError after the
\* empty entry was stored; a later call finds the entry and raises at
\* len(labels).
IncFoundCall(cache, nagg, result_format, fl) ==
  LET opt  == LabelsFor(fl)
      miss == CacheMiss(cache, fl)
  IN IF opt = None
     THEN [cache |-> IF miss THEN (fl :> EmptyEntry) @@ cache ELSE cache,
           n_agg |-> IF miss THEN [nagg EXCEPT ![fl] = @ + 1] ELSE nagg,
           status |-> "TypeError", x |-> <<>>, y |-> <<>>, y_err |-> <<>>]
     ELSE
       Bind(IF miss THEN GetIncFound(loggers, opt[1]) ELSE cache[fl],
            LAMBDA entry :
              LET x_norm == XNorm(result_format, Len(opt[1]), entry)
                  y_norm == YNorm(result_format, entry)
                  steps  == 1 .. Len(entry.avg)
              IN [cache |-> IF miss THEN (fl :> entry) @@ cache ELSE cache,
                  n_agg |-> IF miss THEN [nagg EXCEPT ![fl] = @ + 1]
                            ELSE nagg,
                  status |-> "ok",
                  x |-> [i \in steps |-> RDiv(Num(i - 1), x_norm)],
                  y |-> [i \in steps |-> RDiv(entry.avg[i], y_norm)],
                  y_err |-> [i \in steps |->
                               RootDiv(entry.err[i], y_norm)]])


\* ------------------------------------------------------ wss and rrf
\* The denominator of the tolerance 1e-6 of the comparisons.
Tolerance == 1000000

\* val - 1e-6
Threshold(val) == Rat(val * Tolerance - 1, Tolerance)

\* The first index i of range(len(norm)) with norm[i] >= val - 1e-6, as a
\* 1-based position of the sequence; 0 when the loop finds none.
\* Mutant of FirstReached: the search goes on to the last such index.
RECURSIVE LastReached(_, _, _)
LastReached(norm, val, i) ==
  IF i > Len(norm) THEN 0
  ELSE LET later == LastReached(norm, val, i + 1)
       IN IF later # 0 THEN later
          ELSE IF RGe(norm[i], Threshold(val)) THEN i ELSE 0

RECURSIVE FirstReached(_, _, _)
FirstReached(norm, val, i) ==
  IF i > Len(norm) THEN 0
  ELSE IF RGe(norm[i], Threshold(val)) THEN i
  ELSE FirstReached(norm, val, i + 1)

XFormats == {"percentage", "number"}

\* The rest of wss once the two curves are there: pct the "percentage"
\* curve, num the curve x_return and y_result are taken from.
WssResult(pct, num, val, x_format) ==
  IF x_format = "number" /\ FALSE \notin DOMAIN num.cache
  THEN [cache |-> num.cache, n_agg |-> num.n_agg, status |-> "KeyError",
        value |-> None]
  ELSE
    LET y_coef ==
          IF x_format = "number"
          THEN RDiv(Num(num.cache[FALSE].inc_after_init),
                    Num(Len(labels) - num.cache[FALSE].n_initial))
          ELSE Num(1)
    IN Bind(FirstReached(pct.y, val, 1),
            LAMBDA i :
              [cache |-> num.cache, n_agg |-> num.n_agg,
               status |-> IF i = 0 THEN "not_found" ELSE "ok",
               value |-> IF i = 0 THEN <<None, None, None>>
                         ELSE <<RSub(pct.y[i], pct.x[i]),
                                <<num.x[i], num.x[i]>>,
                                <<RMul(num.x[i], y_coef), num.y[i]>>>>])

\* One call of wss(val, x_format, final_labels=fl).
WssCall(cache, nagg, val, x_format, fl) ==
  Bind(IncFoundCall(cache, nagg, "percentage", fl),
       LAMBDA pct :
         IF pct.status # "ok"
         THEN [cache |-> pct.cache, n_agg |-> pct.n_agg,
               status |-> pct.status, value |-> None]
         ELSE IF x_format = "number"
         THEN Bind(IncFoundCall(pct.cache, pct.n_agg, "number", fl),
                   LAMBDA num : WssResult(pct, num, val, x_format))
         ELSE WssResult(pct, pct, val, x_format))

\* The rest of rrf once the two curves are there.
RrfResult(pct, num, val) ==
  Bind(FirstReached(pct.x, val, 1),
       LAMBDA i :
         [cache |-> num.cache, n_agg |-> num.n_agg,
          status |-> IF i = 0 THEN "not_found" ELSE "ok",
          value |-> IF i = 0 THEN None
                    ELSE <<pct.y[i], <<num.x[i], num.x[i]>>,
                           <<Num(0), num.y[i]>>>>])

\* One call of rrf(val, x_format, final_labels=fl).
RrfCall(cache, nagg, val, x_format, fl) ==
  Bind(IncFoundCall(cache, nagg, "percentage", fl),
       LAMBDA pct :
         IF pct.status # "ok"
         THEN [cache |-> pct.cache, n_agg |-> pct.n_agg,
               status |-> pct.status, value |-> None]
         ELSE IF x_format = "number"
         THEN Bind(IncFoundCall(pct.cache, pct.n_agg, "number", fl),
                   LAMBDA num : RrfResult(pct, num, val))
         ELSE RrfResult(pct, pct, val))

\* ------------------------------------------------------- data sets
\* The labellings of n items.
Labelings(n) == [1 .. n -> {0, 1}]

\* The sequences over S of length at most n.
SeqsUpTo(S, n) == UNION {[1 .. l -> S] : l \in 0 .. n}

\* The orders in which at most n items can be queried, each item once.
QueryOrders(n) ==
  {o \in SeqsUpTo(Items(n), n) :
     \A i, j \in 1 .. Len(o) : i # j => o[i] # o[j]}

\* The logs of a simulation over n items as far as the inclusion curves read
\* them: a label order and the number of seed items at its start.
CurveLoggers(n) ==
  {[label_order |-> o, n_initial |-> k, proba_order |-> <<>>,
    queries |-> <<>>] : <<o, k>> \in
      {ok \in QueryOrders(n) \X (0 .. n) : ok[2] <= Len(ok[1])}}

\* The run collections of 1 .. k runs drawn from L.
Collections(L, k) == UNION {[1 .. r -> L] : r \in 1 .. k}

\* The values the state of avg_time_to_discovery and limits has while
\* neither runs.
Idle ==
  /\ pc = "idle"
  /\ i_file = 0
  /\ time_results = <<>>
  /\ prob_allow_miss = <<>>
  /\ query_i = 0
  /\ n_train = 0
  /\ results = [x_range |-> <<>>, limits |-> <<>>]

NoCall == [op |-> "none"]

\* Analysis.__init__ on a non-empty collection: the labels of the first
\* logger, its final_labels if it has any, an empty cache.
Constructed ==
  /\ inc_found = <<>>
  /\ n_agg = [fl \in BOOLEAN |-> 0]
  /\ ret = NoCall
  /\ Idle

\* The concrete scenario of the documentation: 8 items, the relevant ones
\* at indices 1, 3, 4, 7, one run with two seed items.
ScenarioLabels == <<0, 1, 0, 1, 1, 0, 0, 1>>

ScenarioLogger ==
  [label_order |-> <<0, 2, 1, 3, 4, 5, 6, 7>>, n_initial |-> 2,
   proba_order |-> <<>>, queries |-> <<>>]

InitScenario ==
  /\ labels = ScenarioLabels
  /\ final_labels = None
  /\ loggers = <<ScenarioLogger>>
  /\ Constructed

\* The full call machine on small data sets, with and without final_labels.
InitCalls ==
  /\ \E n \in 1 .. MaxCallN :
       /\ labels \in Labelings(n)
       /\ final_labels \in {None} \cup {Some(l) : l \in Labelings(n)}
       /\ loggers \in Collections(CurveLoggers(n), MaxCallRuns)
  /\ Constructed

\* The curves of the collections of up to MaxN items, without final_labels.
InitCurve ==
  \/ /\ \E n \in 1 .. MaxN :
          /\ labels \in Labelings(n)
          /\ loggers \in Collections(CurveLoggers(n), MaxRuns)
     /\ final_labels = None
     /\ Constructed
  \/ InitScenario

\* --------------------------------------------------------- actions
RecallVals == {10, 100}

UnchangedData == UNCHANGED <<labels, final_labels, loggers>>

UnchangedOther ==
  UNCHANGED <<pc, i_file, time_results, prob_allow_miss, query_i, n_train,
              results>>

\* inclusions_found(result_format, final_labels)
InclusionsFound(result_format, fl) ==
  \E r \in {IncFoundCall(inc_found, n_agg, result_format, fl)} :
     /\ pc = "idle"
     /\ inc_found' = r.cache
     /\ n_agg' = r.n_agg
     /\ ret' = [op |-> "inclusions_found", result_format |-> result_format,
                final_labels |-> fl, status |-> r.status,
                x |-> r.x, y |-> r.y, y_err |-> r.y_err]
     /\ UnchangedData
     /\ UnchangedOther

\* wss(val, x_format, final_labels)
Wss(val, x_format, fl) ==
  \E r \in {WssCall(inc_found, n_agg, val, x_format, fl)} :
     /\ pc = "idle"
     /\ inc_found' = r.cache
     /\ n_agg' = r.n_agg
     /\ ret' = [op |-> "wss", val |-> val, x_format |-> x_format,
                final_labels |-> fl, status |-> r.status, value |-> r.value]
     /\ UnchangedData
     /\ UnchangedOther

\* rrf(val, x_format, final_labels)
Rrf(val, x_format, fl) ==
  \E r \in {RrfCall(inc_found, n_agg, val, x_format, fl)} :
     /\ pc = "idle"
     /\ inc_found' = r.cache
     /\ n_agg' = r.n_agg
     /\ ret' = [op |-> "rrf", val |-> val, x_format |-> x_format,
                final_labels |-> fl, status |-> r.status, value |-> r.value]
     /\ UnchangedData
     /\ UnchangedOther

\* ---------------------------------------- avg_time_to_discovery
\* np.where(labels == 1)[0]
OneLabels(lbls) == {k \in Items(Len(lbls)) : LabelOf(lbls, k) = 1}

\* for i_time, idx in enumerate(label_order): every entry of a relevant
\* item appends its step to that item's times.
RECURSIVE WalkLabelOrder(_, _, _, _)
WalkLabelOrder(times, label_order, lbls, i_time) ==
  IF i_time >= Len(label_order) THEN times
  ELSE LET idx == label_order[i_time + 1]
       IN WalkLabelOrder(
            IF LabelOf(lbls, idx) = 1
            THEN [times EXCEPT ![idx] = Append(@, i_time)] ELSE times,
            label_order, lbls, i_time + 1)

\* for i_time, idx in enumerate(proba_order): an entry of a relevant item
\* appends only while the item has at most i_file times.
RECURSIVE WalkProbaOrder(_, _, _, _, _, _)
WalkProbaOrder(times, proba_order, lbls, n_labeled, file, i_time) ==
  IF i_time >= Len(proba_order) THEN times
  ELSE LET idx == proba_order[i_time + 1]
       IN WalkProbaOrder(
            IF LabelOf(lbls, idx) = 1 /\ Len(times[idx]) <= file
            THEN [times EXCEPT ![idx] = Append(@, i_time + n_labeled)]
            ELSE times,
            proba_order, lbls, n_labeled, file, i_time + 1)

\* for idx in time_results: the items still without a time for this run get
\* len(label_order) + len(proba_order).
FillMissing(times, file, sentinel) ==
  [idx \in DOMAIN times |->
     IF Len(times[idx]) <= file THEN Append(times[idx], sentinel)
     ELSE times[idx]]

\* The body of the loop over the loggers, for the run of index file.
ProcessRun(times, logger, lbls, file) ==
  LET label_order == GetLabeledOrder(logger)[1]
      proba_order == GetLastProbaOrder(logger)
  IN Bind(WalkLabelOrder(times, label_order, lbls, 0),
          LAMBDA t1 :
            Bind(WalkProbaOrder(t1, proba_order, lbls, Len(label_order),
                                file, 0),
                 LAMBDA t2 :
                   FillMissing(t2, file,
                               Len(label_order) + Len(proba_order))))

\* The list n_initial after all runs were processed.
NInitialList(lgs) == [f \in 1 .. Len(lgs) |-> GetLabeledOrder(lgs[f])[2]]

\* trained_time of one item: its times that are >= n_initial[i_file], the
\* position in the item's list taken for the run index.
RECURSIVE TrainedTime(_, _, _)
TrainedTime(times, n_initial, k) ==
  IF k = 0 THEN <<>>
  ELSE TrainedTime(times, n_initial, k - 1)
       \o (IF times[k] >= n_initial[k] THEN <<times[k]>> ELSE <<>>)

\* n_initial[i_file] raises an IndexError for an item with more times than
\* there are runs.
DiscoveryRaises(times, lgs) ==
  \E idx \in DOMAIN times : Len(times[idx]) > Len(lgs)

\* The returned dict: 0 for an item without trained time, else np.average.
DiscoveryResults(times, lgs) ==
  [idx \in DOMAIN times |->
     Bind(TrainedTime(times[idx], NInitialList(lgs), Len(times[idx])),
          LAMBDA trained_time :
            IF Len(trained_time) = 0 THEN Num(0) ELSE Mean(trained_time))]

UnchangedCalls == UNCHANGED <<inc_found, n_agg>>

UnchangedLimits == UNCHANGED <<prob_allow_miss, query_i, n_train, results>>

\* avg_time_to_discovery up to the loop over the loggers.
DiscoveryStart ==
  /\ pc = "idle"
  /\ pc' = "discovery"
  /\ i_file' = 0
  /\ time_results' = [idx \in OneLabels(labels) |-> <<>>]
  /\ UNCHANGED ret
  /\ UnchangedData
  /\ UnchangedCalls
  /\ UnchangedLimits

\* One iteration of the loop over the loggers.
DiscoveryRun ==
  /\ pc = "discovery"
  /\ i_file < Len(loggers)
  /\ time_results' = ProcessRun(time_results, loggers[i_file + 1], labels,
                                i_file)
  /\ i_file' = i_file + 1
  /\ UNCHANGED <<pc, ret>>
  /\ UnchangedData
  /\ UnchangedCalls
  /\ UnchangedLimits

\* The loop over time_results and the return.
DiscoveryReturn ==
  /\ pc = "discovery"
  /\ i_file = Len(loggers)
  /\ pc' = "idle"
  /\ ret' = IF DiscoveryRaises(time_results, loggers)
            THEN [op |-> "avg_time_to_discovery", status |-> "IndexError",
                  value |-> <<>>]
            ELSE [op |-> "avg_time_to_discovery", status |-> "ok",
                  value |-> DiscoveryResults(time_results, loggers)]
  /\ UNCHANGED <<i_file, time_results>>
  /\ UnchangedData
  /\ UnchangedCalls
  /\ UnchangedLimits

\* The logs of a run as far as avg_time_to_discovery reads them; an item may
\* occur more than once in either order.
DiscoveryLoggers(n) ==
  {[label_order |-> o, n_initial |-> k, proba_order |-> p,
    queries |-> <<>>] : <<o, k, p>> \in
      {okp \in SeqsUpTo(Items(n), MaxOrder) \X (0 .. MaxOrder)
                 \X SeqsUpTo(Items(n), MaxProba) : okp[2] <= Len(okp[1])}}

InitDiscovery ==
  /\ \E n \in 1 .. MaxDiscN :
       /\ labels \in Labelings(n)
       /\ loggers \in Collections(DiscoveryLoggers(n), MaxDiscRuns)
  /\ final_labels = None
  /\ Constructed

NextDiscovery == DiscoveryStart \/ DiscoveryRun \/ DiscoveryReturn

SpecDiscovery == InitDiscovery /\ [][NextDiscovery]_vars

\* ----------------------------------------------------------- limits
\* statistics._get_limits(loggers, query_i, labels, proba_allow_miss): None,
\* or one read count per probability.  The statistic is a recorded outcome
\* of the first logger's query: a base read count, from which the count of
\* the i-th probability is taken i further.
GetLimits(lgs, q, lbls, probs) ==
  LET base == lgs[1].queries[q + 1].limit
  IN IF base = None THEN None
     ELSE Some([i_prob \in 1 .. Len(probs) |-> base[1] + i_prob])

\* logger.get("train_idx", query_i), a KeyError giving None.
GetTrainIdx(logger, q) ==
  IF logger.queries[q + 1].has_train_idx
  THEN logger.queries[q + 1].train_idx ELSE None

UnchangedDiscovery == UNCHANGED <<i_file, time_results>>

\* Mutant of NextTrain: without a train_idx the size falls back to 0.
NextTrainReset(new_train_idx, train) ==
  IF new_train_idx # None THEN Cardinality(new_train_idx[1]) ELSE 0

\* n_train after a query: len(new_train_idx) if there is one, else as it
\* was.
NextTrain(new_train_idx, train) ==
  IF new_train_idx # None THEN Cardinality(new_train_idx[1]) ELSE train

\* limits(prob_allow_miss) up to the loop over the queries.
LimitsStart(probs) ==
  /\ pc = "idle"
  /\ pc' = "limits"
  /\ prob_allow_miss' = probs
  /\ query_i' = 0
  /\ n_train' = 0
  /\ results' = [x_range |-> <<>>, limits |-> [i \in 1 .. Len(probs) |-> <<>>]]
  /\ UNCHANGED ret
  /\ UnchangedData
  /\ UnchangedCalls
  /\ UnchangedDiscovery

\* One iteration of the loop over the queries of the first logger.
LimitsStep ==
  /\ pc = "limits"
  /\ query_i < Len(loggers[1].queries)
  /\ \E new_limits \in {GetLimits(loggers, query_i, labels, prob_allow_miss)},
        new_train_idx \in {GetTrainIdx(loggers[1], query_i)} :
       LET train == NextTrain(new_train_idx, n_train)
       IN /\ n_train' = train
          /\ results' =
               IF new_limits # None
               THEN [x_range |-> Append(results.x_range, train),
                     limits |-> [i_prob \in 1 .. Len(prob_allow_miss) |->
                                   Append(results.limits[i_prob],
                                          new_limits[1][i_prob])]]
               ELSE results
  /\ query_i' = query_i + 1
  /\ UNCHANGED <<pc, ret, prob_allow_miss>>
  /\ UnchangedData
  /\ UnchangedCalls
  /\ UnchangedDiscovery

\* The conversion to arrays and the return.
LimitsReturn ==
  /\ pc = "limits"
  /\ query_i = Len(loggers[1].queries)
  /\ pc' = "idle"
  /\ ret' = [op |-> "limits", status |-> "ok", value |-> results]
  /\ UNCHANGED <<prob_allow_miss, query_i, n_train, results>>
  /\ UnchangedData
  /\ UnchangedCalls
  /\ UnchangedDiscovery

\* The recorded queries of a logger as far as limits reads them.
\* "train_idx" is missing (a KeyError), None, or a set of indices.
TrainRecords ==
  {[has_train_idx |-> FALSE, train_idx |-> None]}
    \cup {[has_train_idx |-> TRUE, train_idx |-> t] :
            t \in {None} \cup {Some(Items(k)) : k \in 0 .. MaxTrain}}

QueryRecords ==
  {[limit |-> l, has_train_idx |-> t.has_train_idx,
    train_idx |-> t.train_idx] :
     <<l, t>> \in ({None} \cup {Some(v) : v \in 0 .. MaxLimit})
                  \X TrainRecords}

\* The lists of probabilities of a call, told apart by their position only.
ProbLists == {[i \in 1 .. p |-> i] : p \in 1 .. MaxProbs}

InitLimits ==
  /\ labels \in Labelings(1)
  /\ final_labels = None
  /\ \E qs \in SeqsUpTo(QueryRecords, MaxQueries) :
       loggers = <<[label_order |-> <<>>, n_initial |-> 0,
                    proba_order |-> <<>>, queries |-> qs]>>
  /\ Constructed

NextLimits == (\E probs \in ProbLists : LimitsStart(probs))
                \/ LimitsStep \/ LimitsReturn

SpecLimits == InitLimits /\ [][NextLimits]_vars

NextCalls ==
  \/ \E f \in ResultFormats, fl \in BOOLEAN : InclusionsFound(f, fl)
  \/ \E v \in RecallVals, xf \in XFormats, fl \in BOOLEAN : Wss(v, xf, fl)
  \/ \E v \in RecallVals, xf \in XFormats, fl \in BOOLEAN : Rrf(v, xf, fl)

NextCurve == \E f \in ResultFormats : InclusionsFound(f, FALSE)

NextWss == \E v \in RecallVals, xf \in XFormats : Wss(v, xf, FALSE)

Spec == InitCalls /\ [][NextCalls]_vars

SpecCurve == InitCurve /\ [][NextCurve]_vars

SpecWss == InitCurve /\ [][NextWss]_vars


\* ===================================================== the claims
\* The last call was inclusions_found(result_format, final_labels = fl) and
\* it returned its three arrays.
ReturnedCurve(result_format, fl) ==
  /\ ret.op = "inclusions_found"
  /\ ret.status = "ok"
  /\ ret.result_format = result_format
  /\ ret.final_labels = fl

\* The runs that have an entry at step i (1-based) of their inclusion curve.
Contributors(i) == {f \in 1 .. Len(loggers) : Len(loggers[f].label_order) >= i}

\* The length of the longest inclusion curve.
LongestCurve ==
  CHOOSE m \in {Len(loggers[f].label_order) : f \in 1 .. Len(loggers)} :
    \A f \in 1 .. Len(loggers) : Len(loggers[f].label_order) <= m

\* a <= b on finite rationals.
Leq(a, b) == a[1] * b[2] <= b[1] * a[2]

AllFinite(seq) == \A i \in 1 .. Len(seq) : IsFinite(seq[i])

\* ---- C1
\* C1 as stated: the y-sequence of inclusions_found("number", False) is
\* non-decreasing in the step index and every element is at most the number
\* of 1-entries in Labels (read on the finite sequences only).
C1_AsStated ==
  (ReturnedCurve("number", FALSE) /\ AllFinite(ret.y)) =>
    /\ \A i \in 1 .. Len(ret.y) : Leq(ret.y[i], Num(SumSeq(labels)))
    /\ \A i \in 1 .. (Len(ret.y) - 1) : Leq(ret.y[i], ret.y[i + 1])

\* C1 amended: with inc_after_init # 0 every element of the y-sequence of
\* inclusions_found("number", False) is at most the number of 1-entries in
\* Labels, and y[i] <= y[i+1] wherever the same runs contribute to the steps
\* i and i+1; with inc_after_init = 0 every element is nan.
C1_BoundedAndMonotoneWhileSameRuns ==
  ReturnedCurve("number", FALSE) =>
    IF inc_found[FALSE].inc_after_init = 0
    THEN \A i \in 1 .. Len(ret.y) : IsNaN(ret.y[i])
    ELSE /\ AllFinite(ret.y)
         /\ \A i \in 1 .. Len(ret.y) : Leq(ret.y[i], Num(SumSeq(labels)))
         /\ \A i \in 1 .. (Len(ret.y) - 1) :
              Contributors(i) = Contributors(i + 1)
                => Leq(ret.y[i], ret.y[i + 1])

\* Two runs of unequal lengths, the curve rising over steps both contribute
\* to and reaching more than one relevant item.
C1_Witness ==
  /\ ReturnedCurve("number", FALSE)
  /\ Len(loggers) = 2
  /\ Len(loggers[1].label_order) # Len(loggers[2].label_order)
  /\ inc_found[FALSE].inc_after_init # 0
  /\ Len(ret.y) >= 3
  /\ Contributors(1) = Contributors(2)
  /\ ret.y[1] # ret.y[2]
  /\ ret.y[2] = Num(SumSeq(labels))

\* ---- C2
\* The "number" curve of the documented scenario as the claim gives it.
ScenarioClaimedX ==
  <<Num(0), Rat(1, 8), Rat(2, 8), Rat(3, 8), Rat(4, 8), Rat(5, 8),
    Rat(6, 8), Rat(7, 8)>>

ScenarioClaimedY ==
  <<Num(0), Num(0), Rat(1, 4), Rat(2, 4), Rat(3, 4), Rat(3, 4), Rat(3, 4),
    Num(1)>>

\* C2 as stated: in the "number" format x[i] = i / N, y[i] = mean[i] /
\* inc_after_init, y_error[i] = dispersion[i] / inc_after_init, and the
\* documented scenario gives x = [0, .125, ..., .875],
\* y = [0, 0, .25, .5, .75, .75, .75, 1] (read on the collections whose
\* normalisation divides by no zero).
C2_AsStated ==
  (/\ ReturnedCurve("number", FALSE)
   /\ inc_found[FALSE].inc_after_init # 0
   /\ inc_found[FALSE].n_initial < Len(labels)) =>
    LET entry == inc_found[FALSE]
        iai   == Num(entry.inc_after_init)
    IN /\ \A i \in 1 .. Len(ret.x) :
            /\ ret.x[i] = Rat(i - 1, Len(labels))
            /\ ret.y[i] = RDiv(entry.avg[i], iai)
            /\ ret.y_err[i] = Root(RDiv(entry.err[i].sq, RMul(iai, iai)))
       /\ labels = ScenarioLabels =>
            ret.x = ScenarioClaimedX /\ ret.y = ScenarioClaimedY

\* The "number" curve of the documented scenario as the code computes it.
ScenarioX ==
  <<Num(0), Rat(4, 3), Rat(8, 3), Num(4), Rat(16, 3), Rat(20, 3), Num(8),
    Rat(28, 3)>>

ScenarioY == <<Num(0), Num(0), Num(1), Num(2), Num(3), Num(3), Num(3), Num(4)>>

\* C2 amended: in the "number" format x_norm = (N - n_initial) / N and
\* y_norm = inc_after_init / inc_after_init, so that x[i] = i * N /
\* (N - n_initial) and, for inc_after_init # 0, y[i] = mean[i] and
\* y_error[i] = dispersion[i] (all nan for inc_after_init = 0); the
\* documented scenario gives x = [0, 4/3, 8/3, 4, 16/3, 20/3, 8, 28/3] and
\* y = [0, 0, 1, 2, 3, 3, 3, 4].
C2_NumberFormat ==
  ReturnedCurve("number", FALSE) =>
    LET entry == inc_found[FALSE]
        n     == Len(labels)
    IN /\ Len(ret.x) = Len(entry.avg)
       /\ \A i \in 1 .. Len(ret.x) :
            /\ ret.x[i] = RDiv(Num((i - 1) * n), Num(n - entry.n_initial))
            /\ IF entry.inc_after_init = 0
               THEN IsNaN(ret.y[i]) /\ IsNaN(ret.y_err[i].sq)
               ELSE ret.y[i] = entry.avg[i] /\ ret.y_err[i] = entry.err[i]
       /\ labels = ScenarioLabels =>
            ret.x = ScenarioX /\ ret.y = ScenarioY

\* The documented scenario after inclusions_found("number", False).
C2_Witness ==
  /\ ReturnedCurve("number", FALSE)
  /\ labels = ScenarioLabels
  /\ loggers = <<ScenarioLogger>>
  /\ ret.y[8] = Num(4)


\* ---- C5
\* C5: for a collection of exactly one run every element of the y_error
\* sequence returned by inclusions_found is zero, in every result format.
C5_SingleRunNoErrorBand ==
  (/\ ret.op = "inclusions_found"
   /\ ret.status = "ok"
   /\ Len(loggers) = 1) =>
    \A i \in 1 .. Len(ret.y_err) : ret.y_err[i] = Root(Num(0))

\* ---- C9
\* The sum of g[f] over the runs f of S.
RECURSIVE SumOver(_, _)
SumOver(S, g) ==
  IF S = {} THEN 0
  ELSE LET f == CHOOSE x \in S : TRUE IN g[f] + SumOver(S \ {f}, g)

\* C9: the aggregated curve has as many steps as the longest run's curve,
\* and at each step its mean is the arithmetic mean of inclusions[i] over
\* exactly the runs whose curve has an entry at that step.
C9_MeanOverContributingRuns ==
  FALSE \in DOMAIN inc_found =>
    LET avg == inc_found[FALSE].avg
    IN /\ Len(avg) = LongestCurve
       /\ \A i \in 1 .. Len(avg) :
            LET vals == [f \in Contributors(i) |->
                           CountRelevant(loggers[f].label_order, labels, i)]
            IN /\ Contributors(i) # {}
               /\ avg[i][1] * Cardinality(Contributors(i))
                    = SumOver(Contributors(i), vals) * avg[i][2]

\* Two runs of unequal lengths, aggregated: the last steps have the longer
\* run's own count as their mean, which padding the shorter run would change.
C9_Witness ==
  /\ FALSE \in DOMAIN inc_found
  /\ Len(loggers) = 2
  /\ Len(loggers[1].label_order) = 1
  /\ Len(loggers[2].label_order) = 3
  /\ inc_found[FALSE].avg[1] = Rat(1, 2)
  /\ inc_found[FALSE].avg[3] = Num(2)


\* ---- C3
\* Recall val/100 is reached at step i (1-based) of the aggregated curve of
\* an entry, within the tolerance: 100 * avg[i] / inc_after_init >= val - 1e-6.
Reaches(entry, val, i) ==
  RGe(RDiv(RMul(Num(100), entry.avg[i]), Num(entry.inc_after_init)),
      Rat(val * Tolerance - 1, Tolerance))

\* The first step that reaches recall val/100; 0 when none does.
FirstReaching(entry, val) ==
  IF \E i \in 1 .. Len(entry.avg) : Reaches(entry, val, i)
  THEN CHOOSE i \in 1 .. Len(entry.avg) :
         /\ Reaches(entry, val, i)
         /\ \A j \in 1 .. (i - 1) : ~Reaches(entry, val, j)
  ELSE 0

\* x[i] and y[i] of the percentage-normalised curve of an entry over n items.
PercentX(entry, n, i) ==
  RDiv(RMul(Num(100), Num(i - 1)), Num(n - entry.n_initial))

PercentY(entry, i) ==
  RDiv(RMul(Num(100), entry.avg[i]), Num(entry.inc_after_init))

\* The last call was wss on a flag whose aggregated curve exists.
WssOnCurve ==
  /\ ret.op = "wss"
  /\ ret.final_labels \in DOMAIN inc_found
  /\ inc_found[ret.final_labels] # EmptyEntry

\* C3: wss(val) returns (None, None, None) exactly when no step of the
\* aggregated curve reaches recall val/100; when some step does, it returns
\* a triple computed at the first such step i, whose value is y[i] - x[i]
\* on the percentage-normalised curve (read on the curves with
\* inc_after_init # 0, whose recall is a number).
C3_WssNoneIffNeverReached ==
  (WssOnCurve /\ inc_found[ret.final_labels].inc_after_init # 0) =>
    LET entry == inc_found[ret.final_labels]
        n     == Len(LabelsFor(ret.final_labels)[1])
        i     == FirstReaching(entry, ret.val)
    IN IF i = 0
       THEN ret.status = "not_found" /\ ret.value = <<None, None, None>>
       ELSE /\ ret.status = "ok"
            /\ ret.value[1] = RSub(PercentY(entry, i), PercentX(entry, n, i))

\* C3 on the calls that do not ask for the "number" coordinates of the
\* final_labels curve: there the statement holds.
C3_HoldsOutsideNumberOfFinalLabels ==
  (WssOnCurve /\ ~(ret.x_format = "number" /\ ret.final_labels)) =>
    C3_WssNoneIffNeverReached

\* ---- C4
\* The last call was wss(100) with the default x_format on a collection of
\* one run, and it found full recall.
WssFullRecallOfOneRun ==
  /\ ret.op = "wss"
  /\ ret.status = "ok"
  /\ ret.val = 100
  /\ ret.x_format = "percentage"
  /\ Len(loggers) = 1

\* The shares of items one may call "never read" when full recall is first
\* reached at step i (1-based) of n items with k seed items: counted after
\* step i or from step i on, over all items or over the items after the
\* seed, as a fraction or as a percentage, or the complement of the
\* reading position x.
NeverReadShares(n, k, i, x) ==
  {Rat(n - i, n), Rat(n - i + 1, n),
   Rat(100 * (n - i), n), Rat(100 * (n - i + 1), n),
   RDiv(Num(n - k - i), Num(n - k)), RDiv(Num(n - k - i + 1), Num(n - k)),
   RDiv(Num(100 * (n - k - i)), Num(n - k)),
   RDiv(Num(100 * (n - k - i + 1)), Num(n - k)),
   RSub(Num(1), x), RSub(Num(100), x)}

\* C4 as stated: for a run that has found all relevant items, the x-bar of
\* wss(100) equals the fraction of items never read, the share of items
\* after the first step at which full recall is reached.
C4_AsStated ==
  WssFullRecallOfOneRun =>
    LET entry == inc_found[FALSE]
        i     == FirstReaching(entry, 100)
    IN ret.value[2][1] \in
         NeverReadShares(Len(labels), entry.n_initial, i,
                         PercentX(entry, Len(labels), i))

\* C4 amended: for a run that has found all relevant items, both
\* coordinates of the x-bar of wss(100) equal the reading position
\* x[i] = 100 * i / (N - n_initial) of the first step i at which full recall
\* is reached: the share of items read up to that step, not the share never
\* read.
C4_XBarIsReadingPosition ==
  WssFullRecallOfOneRun =>
    LET entry == inc_found[FALSE]
        i     == FirstReaching(entry, 100)
        x     == PercentX(entry, Len(labels), i)
    IN /\ i # 0
       /\ ret.value[2] = <<x, x>>

\* The documented scenario: full recall at the last of 8 steps, the x-bar
\* at 100 * 7 / 6.
C4_Witness ==
  /\ WssFullRecallOfOneRun
  /\ labels = ScenarioLabels
  /\ loggers = <<ScenarioLogger>>
  /\ ret.value[2] = <<Rat(700, 6), Rat(700, 6)>>

\* ---- C8
\* C8: over any sequence of inclusions_found, wss and rrf calls the cache
\* entry of a flag is written at most once: the aggregation runs only on
\* the first call for the flag, a later call leaves the entry as it is, and
\* a call for one flag leaves the entry of the other flag as it is.
C8_CacheWrittenOnce ==
  [][\A fl \in BOOLEAN :
       /\ n_agg'[fl] <= 1
       /\ fl \in DOMAIN inc_found =>
            /\ fl \in DOMAIN inc_found'
            /\ inc_found'[fl] = inc_found[fl]
            /\ n_agg'[fl] = n_agg[fl]
       /\ (fl \notin DOMAIN inc_found /\ ret'.final_labels # fl) =>
            /\ fl \notin DOMAIN inc_found'
            /\ n_agg'[fl] = n_agg[fl]
       /\ fl \in DOMAIN inc_found' => n_agg'[fl] = 1]_vars

\* Both entries are there, each aggregated once, and they differ; the last
\* call was for final_labels and found its entry in the cache.
C8_Witness ==
  /\ DOMAIN inc_found = BOOLEAN
  /\ inc_found[TRUE] # EmptyEntry
  /\ inc_found[TRUE] # inc_found[FALSE]
  /\ n_agg = [fl \in BOOLEAN |-> 1]
  /\ ret.op = "rrf"
  /\ ret.final_labels


\* ---- C10
\* The 0-based position of the first occurrence of item in order; Len(order)
\* when it does not occur.
FirstPos(order, item) ==
  IF \E i \in 1 .. Len(order) : order[i] = item
  THEN (CHOOSE i \in 1 .. Len(order) :
          order[i] = item /\ \A j \in 1 .. (i - 1) : order[j] # item) - 1
  ELSE Len(order)

Occurs(order, item) == \E i \in 1 .. Len(order) : order[i] = item

\* The discovery time of an item in a run: the step of its first appearance
\* in the label order, else the label order's length plus its first rank in
\* the proba order, else the sum of the two lengths.
DiscoveryTime(logger, item) ==
  IF Occurs(logger.label_order, item)
  THEN FirstPos(logger.label_order, item)
  ELSE Len(logger.label_order) + FirstPos(logger.proba_order, item)

\* C10: after each run has been processed every relevant item has exactly
\* one recorded time for that run, its discovery time, so that the k-th
\* time of an item belongs to the k-th run; for any label order and proba
\* order, also with items that occur more than once.
C10_OneTimePerRun ==
  pc = "discovery" =>
    \A item \in DOMAIN time_results :
      /\ Len(time_results[item]) = i_file
      /\ \A k \in 1 .. i_file :
           time_results[item][k] = DiscoveryTime(loggers[k], item)

\* No relevant item occurs twice in the label order of a run.
NoRelevantRepeat ==
  \A f \in 1 .. Len(loggers) :
    \A i, j \in 1 .. Len(loggers[f].label_order) :
      (/\ i # j
       /\ loggers[f].label_order[i] = loggers[f].label_order[j])
        => LabelOf(labels, loggers[f].label_order[i]) = 0

\* C10 on the collections without such a repeat: there the statement holds.
C10_HoldsWithoutRepeat == NoRelevantRepeat => C10_OneTimePerRun

\* ---- C6
\* The runs in which the discovery time of an item is a trained-phase time.
TrainedRuns(item) ==
  {k \in 1 .. Len(loggers) :
     DiscoveryTime(loggers[k], item) >= loggers[k].n_initial}

\* The last call was avg_time_to_discovery and it returned its dict.
ReturnedDiscovery ==
  /\ ret.op = "avg_time_to_discovery"
  /\ ret.status = "ok"

\* C6: avg_time_to_discovery maps a relevant item to 0 when in every run its
\* position in the label order is below that run's n_initial, and only the
\* discovery times >= the n_initial of their own run enter the average.
C6_SeedDiscoveriesExcluded ==
  ReturnedDiscovery =>
    /\ DOMAIN ret.value = OneLabels(labels)
    /\ \A item \in OneLabels(labels) :
         /\ (\A k \in 1 .. Len(loggers) :
               /\ Occurs(loggers[k].label_order, item)
               /\ FirstPos(loggers[k].label_order, item)
                    < loggers[k].n_initial)
              => ret.value[item] = Num(0)
         /\ ret.value[item] =
              IF TrainedRuns(item) = {} THEN Num(0)
              ELSE Rat(SumOver(TrainedRuns(item),
                               [k \in TrainedRuns(item) |->
                                  DiscoveryTime(loggers[k], item)]),
                       Cardinality(TrainedRuns(item)))

\* C6 on the collections in which no relevant item occurs twice in a label
\* order: there the statement holds.
C6_HoldsWithoutRepeat == NoRelevantRepeat => C6_SeedDiscoveriesExcluded

\* ---- C7
\* The query steps (0-based) before q for which the statistic has a result.
StepsWithResult(q) ==
  {j \in 0 .. (q - 1) : loggers[1].queries[j + 1].limit # None}

\* The query steps up to j that have a train_idx that is not None.
StepsWithTrainIdx(j) ==
  {t \in 0 .. j : /\ loggers[1].queries[t + 1].has_train_idx
                  /\ loggers[1].queries[t + 1].train_idx # None}

\* The size of the train_idx of the most recent such step; 0 if none yet.
LastTrainSize(j) ==
  IF StepsWithTrainIdx(j) = {} THEN 0
  ELSE LET t == CHOOSE t \in StepsWithTrainIdx(j) :
                  \A u \in StepsWithTrainIdx(j) : u <= t
       IN Cardinality(loggers[1].queries[t + 1].train_idx[1])

\* The k-th of the steps with a result.
KthStepWithResult(q, k) ==
  CHOOSE j \in StepsWithResult(q) :
    Cardinality({r \in StepsWithResult(q) : r <= j}) = k

\* C7: while limits iterates the query steps in order, x_range and every
\* limits sequence have one element per step with a result so far and none
\* for the others; the element of x_range is the size of the train_idx of
\* the most recent step, at or before that step, that had one (0 if none),
\* the element of a limits sequence the value of that step.
C7_LimitsAlignedWithSteps ==
  pc = "limits" =>
    LET n == Cardinality(StepsWithResult(query_i))
    IN /\ Len(results.x_range) = n
       /\ DOMAIN results.limits = 1 .. Len(prob_allow_miss)
       /\ \A p \in 1 .. Len(prob_allow_miss) : Len(results.limits[p]) = n
       /\ \A k \in 1 .. n :
            LET j == KthStepWithResult(query_i, k)
            IN /\ results.x_range[k] = LastTrainSize(j)
               /\ \A p \in 1 .. Len(prob_allow_miss) :
                    results.limits[p][k] =
                      GetLimits(loggers, j, labels, prob_allow_miss)[1][p]

\* A first step with a train_idx and no result, then a step with a result
\* and no train_idx: one element, the size the first step left.
C7_Witness ==
  /\ pc = "limits"
  /\ query_i = 2
  /\ Len(prob_allow_miss) = 2
  /\ loggers[1].queries[1].limit = None
  /\ loggers[1].queries[1].train_idx = Some(Items(1))
  /\ ~loggers[1].queries[2].has_train_idx
  /\ results.x_range = <<1>>
  /\ Len(results.limits[2]) = 1

=============================================================================
